---- MODULE Spec2Model ----
(***************************************************************************)
(* Model of src/optimizers/gru.py: the grid search over ParameterGrid,     *)
(* the walk-forward cycle loop, create_sequences, the best-candidate       *)
(* update and the final checkpoint save.                                   *)
(*                                                                         *)
(* Dates are proleptic Gregorian ordinals (datetime.date.toordinal), and   *)
(* the "%Y-%m-%d" string of a date is the triple of its calendar fields.   *)
(* A feature matrix is the sequence of its rows; a row is identified by    *)
(* an integer.  A model object is identified by the configuration and      *)
(* cycle that trained it and by whether it is a deep copy.  Training is    *)
(* not computed: the denormalized prediction and the loss of a cycle are   *)
(* inputs of the cycle, finite and ordered like the floats they stand      *)
(* for.  The globals hidden_dim, num_layers, learning_rate and             *)
(* dropout_rate are read through params only; cycle counts the completed   *)
(* iterations of the inner loop.                                           *)
(*                                                                         *)
(* Spec     the whole script                                               *)
(* SpecWalk the whole script with one fixed training outcome               *)
(* SpecSeq  create_sequences and the choice of X_predict on small matrices *)
(***************************************************************************)
EXTENDS Integers, Sequences, FiniteSets, TLC

\* ------------------------------------------------------------------ bounds
MaxCycles == 2      \* num_cycles is drawn from 0..MaxCycles
GridWidth == 2      \* values kept per varied key of param_grid
MaxExtra  == 3      \* a fetched matrix has up to seq_length + MaxExtra rows
MaxLoss   == 2      \* losses are drawn from 1..MaxLoss
MaxPred   == 2      \* prediction components are drawn from 1..MaxPred
MaxRows   == 5      \* rows of the matrices given to create_sequences alone
MaxLen    == 3      \* window lengths given to create_sequences alone

\* --------------------------------------------------------------- constants
Inf == 1000000      \* float('inf'): above every finite loss
EndDates == {738884, 738943}   \* 2023-12-30, 2024-02-27
WindowYears == 5

None == [none |-> TRUE]

VARIABLES
    pc,                 \* "grid", "cycle", "done", "error"
    num_cycles,
    start_date, end_date, next_day_datetime, next_day,
    grid_pos,           \* number of combinations taken from ParameterGrid
    params,
    cycle,              \* number of cycles completed for the current params
    data, seq_length, X, y,
    model, X_predict, predictions, loss,
    actual_query,
    best_model, best_predictions, best_loss, best_params,
    checkpoint,
    \* history
    end_date_input, config_first_end, visited, offers, min_offered,
    min_params, origin

vars == <<pc, num_cycles, start_date, end_date, next_day_datetime, next_day,
          grid_pos, params, cycle, data, seq_length, X, y, model, X_predict,
          predictions, loss, actual_query, best_model, best_predictions,
          best_loss, best_params, checkpoint, end_date_input,
          config_first_end, visited, offers, min_offered, min_params, origin>>

\* ------------------------------------------------------------------- dates
IsLeap(yr) == yr % 4 = 0 /\ (yr % 100 # 0 \/ yr % 400 = 0)

DaysInMonth(yr, m) ==
    IF m = 2 THEN (IF IsLeap(yr) THEN 29 ELSE 28)
    ELSE IF m \in {4, 6, 9, 11} THEN 30 ELSE 31

RECURSIVE DaysBeforeMonth(_, _)
DaysBeforeMonth(yr, m) ==
    IF m = 1 THEN 0 ELSE DaysBeforeMonth(yr, m - 1) + DaysInMonth(yr, m - 1)

DaysBeforeYear(yr) ==
    LET p == yr - 1 IN p * 365 + (p \div 4) - (p \div 100) + (p \div 400)

\* date.strftime("%Y-%m-%d"): the calendar fields of an ordinal
Strftime(ord) ==
    LET n0   == ord - 1
        n400 == n0 \div 146097
        r400 == n0 % 146097
        n100 == r400 \div 36524
        r100 == r400 % 36524
        n4   == r100 \div 1461
        r4   == r100 % 1461
        n1   == r4 \div 365
        r1   == r4 % 365
        yr   == n400 * 400 + n100 * 100 + n4 * 4 + n1 + 1
    IN  IF n1 = 4 \/ n100 = 4
        THEN <<yr - 1, 12, 31>>
        ELSE LET m == CHOOSE k \in 1..12 :
                         /\ DaysBeforeMonth(yr, k) <= r1
                         /\ r1 < DaysBeforeMonth(yr, k) + DaysInMonth(yr, k)
             IN  <<yr, m, r1 - DaysBeforeMonth(yr, m) + 1>>

\* the date a "%Y-%m-%d" string denotes, as the data provider reads it
ParseDate(s) == DaysBeforeYear(s[1]) + DaysBeforeMonth(s[1], s[2]) + s[3]

\* d + timedelta(days=1)
NextDayAfter(d) == d + 1

\* the bug of leaving the end date where it was
EndAfterCycle_Stale(e, nd) == e

\* line 231: end_date = next_day_datetime
EndAfterCycle(e, nd) == nd

\* the bug of not moving the next day on
AdvanceDay_Stuck(nd) == nd

\* line 232: next_day_datetime += timedelta(days=1)
AdvanceDay(nd) == nd + 1

\* ----------------------------------------------------------- ParameterGrid
\* learning_rate is in units of 1e-4 and dropout_rate in units of 1e-1
SourceGrid ==
    [hidden_dim    |-> <<32, 64, 128>>,
     num_layers    |-> <<2, 3, 4>>,
     learning_rate |-> <<10, 5, 1>>,
     seq_length    |-> <<60, 80, 100>>,
     dropout_rate  |-> <<1, 2, 3>>]

VariedKeys == {"hidden_dim", "seq_length"}

Min(a, b) == IF a < b THEN a ELSE b

\* the grid searched by the model: the first values of each list
param_grid ==
    [k \in DOMAIN SourceGrid |->
        SubSeq(SourceGrid[k], 1,
               IF k \in VariedKeys THEN Min(GridWidth, Len(SourceGrid[k])) ELSE 1)]

\* ParameterGrid iterates over sorted(param_grid.items())
SortedKeys == <<"dropout_rate", "hidden_dim", "learning_rate", "num_layers", "seq_length">>

RECURSIVE SizeFrom(_)
\* number of combinations of the keys at positions i.. of SortedKeys
SizeFrom(i) ==
    IF i > Len(SortedKeys) THEN 1
    ELSE Len(param_grid[SortedKeys[i]]) * SizeFrom(i + 1)

GridSize == SizeFrom(1)

\* the bug of ignoring the faster keys when a position is extracted
Digit_NoRadix(n, i) == n % Len(param_grid[SortedKeys[i]])

\* position (0-based) in its value list of key number i in combination n:
\* itertools.product varies the last key fastest
Digit(n, i) == (n \div SizeFrom(i + 1)) % Len(param_grid[SortedKeys[i]])

KeyPos(k) == CHOOSE i \in 1..Len(SortedKeys) : SortedKeys[i] = k

\* the n-th (0-based) dict yielded by ParameterGrid(param_grid)
Config(n) == [k \in DOMAIN param_grid |-> param_grid[k][Digit(n, KeyPos(k)) + 1]]

\* -------------------------------------------------------- create_sequences
\* the bug of iterating over range(len(data) - seq_length)
RangeLen_OneMore(k) == IF k + 1 > 0 THEN k + 1 ELSE 0

\* len(range(k))
RangeLen(k) == IF k > 0 THEN k ELSE 0

\* the bug of skipping the row after the window
TargetRow_Skip(i, L) == i + L + 1

\* the row used as target of the window starting at 1-based row i
TargetRow(i, L) == i + L

create_sequences(d, L) ==
    LET n == RangeLen(Len(d) - L - 1)
    IN  [xs |-> [i \in 1..n |-> SubSeq(d, i, i + L - 1)],
         ys |-> [i \in 1..n |-> d[TargetRow(i, L)]]]

\* X[-1:, :, :], the window handed to the model for the prediction
LastWindow(xs) == xs[Len(xs)]

\* ------------------------------------------------------ best-candidate rule
AllGreater(p, q) == \A i \in DOMAIN p : p[i] > q[i]

\* line 224: best_predictions is None or np.all(predictions > best_predictions)
FirstRule(pred, bestPred) == bestPred = None \/ AllGreater(pred, bestPred)

\* the bug of a non-strict loss comparison
LossRule_NonStrict(l, bestLoss) == l <= bestLoss

\* line 236: loss.item() < best_loss
LossRule(l, bestLoss) == l < bestLoss

\* copy.deepcopy(model): a new object with the same weights
DeepCopy(m) == [m EXCEPT !.copy = TRUE]

\* line 225: best_model = model binds the live object itself
Alias(m) == m

\* model.state_dict(): the weights, whatever object holds them
StateDict(m) == <<m.cfg, m.cycle>>

\* ------------------------------------------------------------------ inputs
\* the feature columns followed by the model (lines 208-209 print them first)
Columns == <<"Open", "High">>

Predictions == [1..Len(Columns) -> 1..MaxPred]
Losses == 1..MaxLoss

\* row counts of the matrices the data provider returns when the window
\* length is L: none, or L and a few more
RowCounts(L) == {0} \cup {L + e : e \in 0..MaxExtra}

\* a fetched matrix: R time-ordered rows, each identified by its position
Matrix(R) == [i \in 1..R |-> i]

\* ----------------------------------------------------------- initial state
\* the state at line 168, before the grid-search loop
Init ==
    /\ pc = "grid"
    /\ num_cycles \in 0..MaxCycles
    /\ end_date \in EndDates
    /\ start_date = end_date - (365 * WindowYears - 1)
    /\ next_day_datetime = NextDayAfter(end_date)
    /\ next_day = Strftime(next_day_datetime)
    /\ grid_pos = 0
    /\ params = None
    /\ cycle = 0
    /\ data = None /\ X = None /\ y = None
    /\ seq_length = 80
    /\ model = None /\ X_predict = None /\ predictions = None /\ loss = None
    /\ actual_query = None
    /\ best_model = None /\ best_predictions = None
    /\ best_loss = Inf /\ best_params = None
    /\ checkpoint = None
    /\ end_date_input = end_date
    /\ config_first_end = end_date
    /\ visited = << >>
    /\ offers = 0
    /\ min_offered = Inf
    /\ min_params = {}
    /\ origin = None

dateVars == <<start_date, end_date, next_day_datetime, next_day>>
bestVars == <<best_model, best_predictions, best_loss, best_params>>
liveVars == <<model, X_predict, predictions, loss, actual_query>>
histVars == <<offers, min_offered, min_params, origin>>

\* ----------------------------------------------------------------- actions
\* lines 171-178: the outer loop takes the next combination
NextParams ==
    /\ pc = "grid"
    /\ grid_pos < GridSize
    /\ params' = Config(grid_pos)
    /\ seq_length' = params'.seq_length
    /\ grid_pos' = grid_pos + 1
    /\ cycle' = 0
    /\ pc' = "cycle"
    /\ config_first_end' = end_date
    /\ visited' = Append(visited, params')
    /\ UNCHANGED <<num_cycles, dateVars, data, X, y, liveVars, bestVars,
                   checkpoint, end_date_input, histVars>>

\* lines 182-239: one walk-forward cycle on a matrix of R rows whose training
\* yields the denormalized prediction pred and the loss l
CycleOk(R, pred, l) ==
    /\ pc = "cycle"
    /\ cycle < num_cycles
    /\ LET seqs  == create_sequences(Matrix(R), seq_length)
           m     == [cfg |-> grid_pos, cycle |-> cycle, copy |-> FALSE]
           this  == <<grid_pos, cycle>>
           first == FirstRule(pred, best_predictions)
           loss1 == IF first THEN l ELSE best_loss
           second == LossRule(l, loss1)
       IN  /\ R > 0
           /\ Len(seqs.xs) > 0
           /\ data' = Matrix(R)
           /\ X' = seqs.xs
           /\ y' = seqs.ys
           /\ model' = m
           /\ X_predict' = LastWindow(seqs.xs)
           /\ predictions' = pred
           /\ loss' = l
           /\ actual_query' = <<next_day, NextDayAfter(next_day_datetime)>>
           /\ best_predictions' = IF first THEN pred ELSE best_predictions
           /\ best_model' = IF second THEN DeepCopy(m)
                            ELSE IF first THEN Alias(m) ELSE best_model
           /\ best_loss' = IF second THEN l ELSE loss1
           /\ best_params' = IF first \/ second THEN params ELSE best_params
           /\ origin' =
                LET o1 == IF first
                          THEN [predictions |-> this, loss |-> this, params |-> this]
                          ELSE origin
                IN  IF second THEN [o1 EXCEPT !.loss = this, !.params = this]
                    ELSE o1
    /\ end_date' = EndAfterCycle(end_date, next_day_datetime)
    /\ next_day_datetime' = AdvanceDay(next_day_datetime)
    /\ next_day' = Strftime(next_day_datetime')
    /\ cycle' = cycle + 1
    /\ offers' = offers + 1
    /\ min_offered' = Min(l, min_offered)
    /\ min_params' = IF l < min_offered THEN {params}
                     ELSE IF l = min_offered THEN min_params \cup {params}
                     ELSE min_params
    /\ UNCHANGED <<pc, num_cycles, start_date, grid_pos, params, seq_length,
                   checkpoint, end_date_input, config_first_end, visited>>

\* lines 182-191 when no sequence can be formed: MinMaxScaler rejects an empty
\* matrix (line 185), and X.shape[2] raises on the empty X (line 191); the
\* exception ends the script
CycleError(R) ==
    /\ pc = "cycle"
    /\ cycle < num_cycles
    /\ LET seqs == create_sequences(Matrix(R), seq_length)
       IN  /\ R = 0 \/ Len(seqs.xs) = 0
           /\ data' = Matrix(R)
           /\ X' = IF R = 0 THEN X ELSE seqs.xs
           /\ y' = IF R = 0 THEN y ELSE seqs.ys
    /\ pc' = "error"
    /\ UNCHANGED <<num_cycles, dateVars, grid_pos, params, cycle, seq_length,
                   liveVars, bestVars, checkpoint, end_date_input,
                   config_first_end, visited, histVars>>

\* line 180: range(num_cycles) is exhausted
EndCycles ==
    /\ pc = "cycle"
    /\ cycle >= num_cycles
    /\ pc' = "grid"
    /\ UNCHANGED <<num_cycles, dateVars, grid_pos, params, cycle, data,
                   seq_length, X, y, liveVars, bestVars, checkpoint,
                   end_date_input, config_first_end, visited, histVars>>

\* lines 242-256: ParameterGrid is exhausted; the best model is saved
Finish ==
    /\ pc = "grid"
    /\ grid_pos >= GridSize
    /\ checkpoint' = IF best_model # None THEN StateDict(best_model) ELSE checkpoint
    /\ pc' = "done"
    /\ UNCHANGED <<num_cycles, dateVars, grid_pos, params, cycle, data,
                   seq_length, X, y, liveVars, bestVars, end_date_input,
                   config_first_end, visited, histVars>>

Next ==
    \/ NextParams
    \/ \E R \in RowCounts(seq_length), pred \in Predictions, l \in Losses : CycleOk(R, pred, l)
    \/ \E R \in RowCounts(seq_length) : CycleError(R)
    \/ EndCycles
    \/ Finish

Spec == Init /\ [][Next]_vars

\* ------------------------------------------- the loops with training fixed
\* The grid enumeration and the dates do not read the outcome of training:
\* the same script with every cycle yielding one and the same prediction
\* and loss.
FixedPrediction == [i \in 1..Len(Columns) |-> 1]
FixedLoss == 1

NextWalk ==
    \/ NextParams
    \/ \E R \in RowCounts(seq_length) : CycleOk(R, FixedPrediction, FixedLoss)
    \/ \E R \in RowCounts(seq_length) : CycleError(R)
    \/ EndCycles
    \/ Finish

SpecWalk == Init /\ [][NextWalk]_vars

\* ------------------------------------------- create_sequences on its own
RowValues == {1, 2}

SeqMatrices == UNION {[1..n -> RowValues] : n \in 0..MaxRows}

\* a matrix and a window length, before create_sequences is called
InitSeq ==
    /\ pc = "seq"
    /\ data \in SeqMatrices
    /\ seq_length \in 0..MaxLen
    /\ X = None /\ y = None /\ X_predict = None
    /\ num_cycles = 0
    /\ end_date = 738884
    /\ start_date = end_date - (365 * WindowYears - 1)
    /\ next_day_datetime = NextDayAfter(end_date)
    /\ next_day = Strftime(next_day_datetime)
    /\ grid_pos = 0 /\ params = None /\ cycle = 0
    /\ model = None /\ predictions = None /\ loss = None
    /\ actual_query = None
    /\ best_model = None /\ best_predictions = None
    /\ best_loss = Inf /\ best_params = None
    /\ checkpoint = None
    /\ end_date_input = end_date /\ config_first_end = end_date
    /\ visited = << >> /\ offers = 0 /\ min_offered = Inf
    /\ min_params = {} /\ origin = None

seqFrame == <<num_cycles, dateVars, grid_pos, params, cycle, model,
              predictions, loss, actual_query, bestVars, checkpoint,
              end_date_input, config_first_end, visited, histVars>>

\* line 186: X, y = create_sequences(data, seq_length)
Windowing ==
    /\ pc = "seq"
    /\ X' = create_sequences(data, seq_length).xs
    /\ y' = create_sequences(data, seq_length).ys
    /\ pc' = "windowed"
    /\ UNCHANGED <<data, seq_length, X_predict, seqFrame>>

\* line 201: X_predict = X[-1:, :, :]
SelectWindow ==
    /\ pc = "windowed"
    /\ Len(X) > 0
    /\ X_predict' = LastWindow(X)
    /\ pc' = "selected"
    /\ UNCHANGED <<data, seq_length, X, y, seqFrame>>

NextSeq == Windowing \/ SelectWindow

SpecSeq == InitSeq /\ [][NextSeq]_vars

\* =================================================================== claims
\* a step that ran a whole cycle and made its offer
OfferStep == pc = "cycle" /\ cycle' = cycle + 1

\* C1: an offer changes the tracked best exactly when (a) there is no best
\* yet, or (b) every component of the offered prediction is strictly greater
\* than the stored one, or (c) the offered loss is strictly lower than the
\* stored loss; then the stored loss and parameters are the offer's, and
\* otherwise the four stored fields are unchanged.
C1_OfferRule ==
    [][OfferStep =>
        LET a == best_predictions = None
            b == /\ ~a
                 /\ \A i \in 1..Len(Columns) : predictions'[i] > best_predictions[i]
            c == loss' < best_loss
        IN  /\ (bestVars' # bestVars) <=> (a \/ b \/ c)
            /\ (a \/ b \/ c) => (best_loss' = loss' /\ best_params' = params')
            /\ ~(a \/ b \/ c) => UNCHANGED bestVars]_vars

\* an offer was rejected after the loss rule alone had replaced the best
C1_Witness ==
    /\ offers >= 3
    /\ best_model # None
    /\ best_model.copy
    /\ origin.predictions # origin.loss
    /\ origin.loss # <<model.cfg, model.cycle>>

\* C2: when a run that made an offer finishes, the stored best loss is the
\* minimum of all offered losses and the stored parameters are those of a
\* candidate attaining it.
C2_BestIsMinimum ==
    (pc = "done" /\ offers > 0) =>
        (best_loss = min_offered /\ best_params \in min_params)

\* C3: after the first offer the stored parameters, model, prediction and
\* loss all come from one and the same offered candidate.
C3_SingleOrigin ==
    offers > 0 =>
        /\ origin.predictions = StateDict(best_model)
        /\ origin.loss = StateDict(best_model)
        /\ origin.params = StateDict(best_model)

\* C4: the model stored as best is never the same object as the live model
\* of the cycle that offered it.
C4_StoredModelIsCopy == best_model = None \/ best_model # model

\* position of a value in its list, and the order of two combinations
C5_ValuePos(k, v) == CHOOSE j \in 1..Len(param_grid[k]) : param_grid[k][j] = v

C5_Before(p, q) ==
    \E i \in 1..Len(SortedKeys) :
        /\ C5_ValuePos(SortedKeys[i], p[SortedKeys[i]])
             < C5_ValuePos(SortedKeys[i], q[SortedKeys[i]])
        /\ \A h \in 1..(i - 1) : p[SortedKeys[h]] = q[SortedKeys[h]]

\* C5: the walk-forward procedure runs once for each combination of the
\* Cartesian product, in increasing lexicographic order of the value
\* positions over the sorted keys, k1 x ... x kn times in a finished run,
\* and taking the next combination leaves the best-candidate record alone.
C5_GridEnumeration ==
    /\ [](/\ Len(visited) = grid_pos
          /\ \A i \in 1..Len(visited) :
                \A k \in DOMAIN param_grid :
                    \E j \in 1..Len(param_grid[k]) : visited[i][k] = param_grid[k][j]
          /\ \A i, j \in 1..Len(visited) :
                i < j => (visited[i] # visited[j] /\ C5_Before(visited[i], visited[j]))
          /\ pc = "done" =>
                Len(visited) = Len(param_grid.hidden_dim) * Len(param_grid.num_layers)
                                 * Len(param_grid.learning_rate)
                                 * Len(param_grid.seq_length)
                                 * Len(param_grid.dropout_rate))
    /\ [][grid_pos' # grid_pos => UNCHANGED bestVars]_vars
    /\ [][best_predictions # None => best_predictions' # None]_vars

\* a finished run over several combinations that kept a best from an
\* earlier combination
C5_Witness ==
    /\ pc = "done"
    /\ Len(visited) > 1
    /\ best_model # None
    /\ best_model.cfg < grid_pos

\* C6: within one configuration every cycle moves the end date one day on,
\* C cycles end at D + C, the actual values are queried for the end date + 1
\* day, and the start date never changes.
C6_WalkForwardDates ==
    /\ [](/\ pc \in {"cycle", "error"} => end_date = config_first_end + cycle
          /\ (pc \in {"grid", "done"} /\ grid_pos > 0)
                => end_date = config_first_end + num_cycles)
    /\ [][OfferStep =>
            /\ end_date' = end_date + 1
            /\ ParseDate(actual_query'[1]) = end_date + 1
            /\ actual_query'[2] = end_date + 2]_vars
    /\ [][start_date' = start_date]_vars

\* the second cycle of a configuration has queried the actual values
C6_Witness ==
    /\ pc = "cycle"
    /\ cycle = 2
    /\ ParseDate(actual_query[1]) = config_first_end + 2

\* C7: create_sequences yields max(0, R - L - 1) sequences; sequence i has
\* the L rows starting at row i as window and the row after them as target.
C7_CreateSequences ==
    pc \in {"windowed", "selected"} =>
        LET R == Len(data)
            L == seq_length
            n == IF R - L - 1 > 0 THEN R - L - 1 ELSE 0
        IN  /\ Len(X) = n
            /\ Len(y) = n
            /\ \A i \in 1..n :
                  /\ Len(X[i]) = L
                  /\ \A j \in 1..L : X[i][j] = data[i + j - 1]
                  /\ y[i] = data[i + L]

C7_Witness ==
    /\ pc = "windowed"
    /\ seq_length >= 2
    /\ Len(X) >= 2
    /\ data[1] # data[2]

\* C8: a cycle whose matrix has at most window_length + 1 rows ends in an
\* error without constructing a model or touching the best record, nothing
\* runs after the error, and no checkpoint is written.
C8_InsufficientData ==
    /\ [][(pc = "cycle" /\ cycle < num_cycles /\ Len(data') <= seq_length + 1) =>
            /\ pc' = "error"
            /\ UNCHANGED <<model, predictions, loss, offers, bestVars, checkpoint>>]_vars
    /\ [][pc = "error" => UNCHANGED vars]_vars
    /\ [](pc = "error" => checkpoint = None)

\* the error struck after an earlier cycle had stored a best candidate
C8_Witness ==
    /\ pc = "error"
    /\ Len(data) = seq_length + 1
    /\ best_model # None

\* C9: the window the prediction is computed from consists of the L latest
\* rows of the fetched matrix.
C9_LatestWindow ==
    (pc = "cycle" /\ cycle > 0) =>
        X_predict = SubSeq(data, Len(data) - seq_length + 1, Len(data))

\* C10: configuration n (0-based) starts at end date E + n*C and a finished
\* run over N configurations ends at E + N*C.
C10_DatesCarryOver ==
    /\ (pc = "cycle" /\ cycle = 0) =>
            end_date = end_date_input + (grid_pos - 1) * num_cycles
    /\ pc = "done" => end_date = end_date_input + grid_pos * num_cycles

C10_Witness ==
    /\ pc = "cycle"
    /\ cycle = 0
    /\ grid_pos = 3
    /\ num_cycles = 2
    /\ end_date = end_date_input + 4

====
